---------------------------- MODULE Spec2Model ----------------------------
(***************************************************************************)
(* Model of board/encoder.go: the Encoder capability and its two           *)
(* implementations, HallEncoder (two-channel quadrature decoder) and       *)
(* SingleEncoder (one pulse channel plus the motor's direction).           *)
(*                                                                         *)
(* One encoder instance is modelled; `kind` says which implementation was  *)
(* constructed.  The processes are: the caller of Start, the consumer loop *)
(* goroutine that Start spawns, the interrupt layer that ticks the lines   *)
(* and sends on the registered channels, callers of Zero and Position,     *)
(* the owner of the cancellation context and (SingleEncoder) the motor     *)
(* that changes its direction.  Start is called at most once per instance. *)
(*                                                                         *)
(* position is an int64 in the code; the model keeps it within             *)
(* -(MaxPos+2) .. MaxPos+2, far from the wrap at the integer width.        *)
(***************************************************************************)
EXTENDS Integers, Sequences, FiniteSets

(* ------------------------------ bounds -------------------------------- *)

\* The interrupt layer starts a new delivery only while |position| < MaxPos.
MaxPos == 2

\* Zero is called with offsets in -MaxOffset .. MaxOffset.
MaxOffset == 1

Offsets == (0 - MaxOffset) .. MaxOffset

(* ----------------------------- constants ------------------------------ *)

Kinds == {"hall", "single"}

\* pb.DirectionRelative
Directions == {"UNSPECIFIED", "FORWARD", "BACKWARD"}

\* An unbuffered channel: either no sender is waiting, or one sender is
\* blocked with its value.  genuine is a history tag of the value: whether
\* the level differs from the level the line had before the tick.
Idle == [busy |-> FALSE, level |-> FALSE, genuine |-> FALSE]

Sending(lv, g) == [busy |-> TRUE, level |-> lv, genuine |-> g]

(* ------------------------------- state -------------------------------- *)

VARIABLES
    kind,                    \* which Encoder implementation was constructed
    position,                \* e.position
    lpc,                     \* where the consumer loop goroutine is
    aLevel, bLevel,          \* HallEncoder loop locals
    lastWasA, lastLevel,
    isA, level,
    rpmDebug,                \* SingleEncoder loop local
    cancelled,               \* cancelCtx.Done() is closed
    activeBackgroundWorkers, \* the wait group's count
    callbacks,               \* channels registered with each interrupt
    onStartCalls,            \* number of calls of onStart
    goroutines,              \* consumer loops created by utils.ManagedGo
    chanA, chanB,            \* HallEncoder's delivery channels
    encoderChannel,          \* SingleEncoder's delivery channel
    lineA, lineB,            \* the actual levels of the two lines
    motorDir,                \* what e.M.rawDirection() returns
    rpc, result, err,        \* a caller of Position / the last error returned
    \* history variables
    curGenuine,              \* the event being decoded is a genuine edge
    prev,                    \* the event the HallEncoder loop processed last
    pulse,                   \* the pulse the SingleEncoder loop counted last
    zeroed,                  \* the last Zero, until the loop next counts
    held,                    \* values position held during the Position call
    cycDir, cyc,             \* progress of a four-edge cycle, its steps
    lastCycle,               \* the completed cycle before that: its net change
    traced,                  \* the histories late and older are recorded
    late,                    \* events received / steps counted after the cancel
    older,                   \* of two pending deliveries, the one offered first
    waitDone,                \* a Wait on the wait group has returned
    recvDir                  \* the motor's direction when the pulse was received

loopVars == <<lpc, aLevel, bLevel, lastWasA, lastLevel, isA, level, rpmDebug>>

startVars == <<activeBackgroundWorkers, callbacks, onStartCalls, goroutines>>

chanVars == <<chanA, chanB, encoderChannel>>

lineVars == <<lineA, lineB>>

readVars == <<rpc, result, err>>

cycVars == <<cycDir, cyc, lastCycle>>

histVars == <<curGenuine, prev, pulse>>

obsVars == <<traced, late, older, waitDone, recvDir>>

vars == <<kind, position, loopVars, cancelled, startVars, chanVars, lineVars,
          motorDir, readVars, histVars, zeroed, held, cycVars, obsVars>>

NoPrev == [valid |-> FALSE, isA |-> FALSE, level |-> FALSE, genuine |-> FALSE,
           accepted |-> FALSE, d |-> 0,
           state |-> <<TRUE, TRUE, TRUE, TRUE>>]

\* dir is the direction the loop read; at and now are the motor's direction
\* when the pulse was received and when it was counted.
NoPulse == [valid |-> FALSE, dir |-> "UNSPECIFIED", d |-> 0, warned |-> FALSE,
            at |-> "UNSPECIFIED", now |-> "UNSPECIFIED"]

NoZero == [set |-> FALSE, x |-> 0, read |-> FALSE]

NoLate == [recv |-> 0, steps |-> 0]

\* NewHallEncoder / NewSingleEncoder: position 0, no loop, nothing registered.
\* The histories late and older are recorded in behaviours that start with
\* traced; they are read by no step of the encoders.
InitWith(tr) ==
    /\ kind \in Kinds
    /\ position = 0
    /\ lpc = "none"
    /\ aLevel = TRUE /\ bLevel = TRUE
    /\ lastWasA = TRUE /\ lastLevel = TRUE
    /\ isA = FALSE /\ level = FALSE
    /\ rpmDebug = FALSE
    /\ cancelled = FALSE
    /\ activeBackgroundWorkers = 0
    /\ callbacks = [c \in {"a", "b", "i"} |-> 0]
    /\ onStartCalls = 0
    /\ goroutines = 0
    /\ chanA = Idle /\ chanB = Idle /\ encoderChannel = Idle
    /\ lineA \in (IF kind = "hall" THEN BOOLEAN ELSE {FALSE})
    /\ lineB \in (IF kind = "hall" THEN BOOLEAN ELSE {FALSE})
    /\ motorDir \in (IF kind = "single" THEN Directions ELSE {"UNSPECIFIED"})
    /\ rpc = "idle" /\ result = 0 /\ err = "none"
    /\ curGenuine = FALSE
    /\ prev = NoPrev
    /\ pulse = NoPulse
    /\ zeroed = NoZero
    /\ held = {}
    /\ cycDir = "none" /\ cyc = <<>>
    /\ lastCycle = [dir |-> "none", sum |-> 0]
    /\ traced = tr
    /\ late = NoLate
    /\ older = "none"
    /\ waitDone = FALSE
    /\ recvDir = "UNSPECIFIED"

Init == InitWith(FALSE)

TracedInit == InitWith(TRUE)

\* History of what the loop does once the cancellation signal has fired:
\* r events received and a step d counted, each count kept up to 2.
Later(r, d) ==
    IF cancelled /\ traced
    THEN [recv  |-> IF late.recv + r > 2 THEN 2 ELSE late.recv + r,
          steps |-> IF d = 0 \/ late.steps = 2 THEN late.steps
                    ELSE late.steps + 1]
    ELSE late

(* ------------------------- the position counter ----------------------- *)

\* Values position takes while an observed Position call is in flight
\* (PositionCall opens the observation, PositionReturn closes it).
Holds(v) == IF held = {} THEN held ELSE held \cup {v}

\* Mutant of AddInt64: a load and a store instead of the atomic add; an add
\* racing a Zero writes back a value it loaded before the Zero.
AddInt64Torn(d) ==
    /\ IF zeroed.set /\ d # 0
       THEN \E v \in (0 - MaxPos)..MaxPos : position' = v + d
       ELSE position' = position + d
    /\ held' = Holds(position')
    /\ zeroed' = IF d = 0 THEN zeroed ELSE NoZero

\* atomic.AddInt64(&e.position, d) by the consumer loop, d in {1, -1, 0}
\* (0: the loop does not touch the counter).
AddInt64(d) ==
    /\ position' = position + d
    /\ held' = Holds(position + d)
    /\ zeroed' = IF d = 0 THEN zeroed ELSE NoZero

\* Mutant of StoreInt64: the offset is added to the counter.
StoreInt64Added(offset) ==
    /\ position' = position + offset
    /\ held' = Holds(position + offset)
    /\ zeroed' = [set |-> TRUE, x |-> offset, read |-> FALSE]

\* atomic.StoreInt64(&e.position, offset)
StoreInt64(offset) ==
    /\ position' = offset
    /\ held' = Holds(offset)
    /\ zeroed' = [set |-> TRUE, x |-> offset, read |-> FALSE]

\* Mutant of LoadInt64: the value of the previous call is returned.
LoadInt64Cached == result

\* atomic.LoadInt64(&e.position)
LoadInt64 == position

(* ------------------------------- Start -------------------------------- *)

\* Mutant of Start: the wait group is not incremented.
StartNoAdd ==
    /\ lpc = "none"
    /\ callbacks' = IF kind = "hall"
                    THEN [callbacks EXCEPT !["a"] = @ + 1, !["b"] = @ + 1]
                    ELSE [callbacks EXCEPT !["i"] = @ + 1]
    /\ goroutines' = goroutines + 1
    /\ lpc' = "spawned"
    /\ UNCHANGED <<kind, position, aLevel, bLevel, lastWasA, lastLevel, isA,
                   level, rpmDebug, cancelled, activeBackgroundWorkers,
                   onStartCalls, chanVars, lineVars, motorDir, readVars,
                   histVars, zeroed, held, cycVars, obsVars>>

\* HallEncoder.Start / SingleEncoder.Start, up to its return: the channels
\* are made and registered, the wait group is incremented and the goroutine
\* is created.  The goroutine has not run yet.
Start ==
    /\ lpc = "none"
    /\ callbacks' = IF kind = "hall"
                    THEN [callbacks EXCEPT !["a"] = @ + 1, !["b"] = @ + 1]
                    ELSE [callbacks EXCEPT !["i"] = @ + 1]
    /\ activeBackgroundWorkers' = activeBackgroundWorkers + 1
    /\ goroutines' = goroutines + 1
    /\ lpc' = "spawned"
    /\ UNCHANGED <<kind, position, aLevel, bLevel, lastWasA, lastLevel, isA,
                   level, rpmDebug, cancelled, onStartCalls, chanVars,
                   lineVars, motorDir, readVars, histVars, zeroed, held,
                   cycVars, obsVars>>

\* Mutant of LoopBegin: onStart is not called.
LoopBeginNoOnStart ==
    /\ lpc = "spawned"
    /\ aLevel' = TRUE /\ bLevel' = TRUE
    /\ lastWasA' = TRUE /\ lastLevel' = TRUE
    /\ rpmDebug' \in (IF kind = "single" THEN BOOLEAN ELSE {FALSE})
    /\ lpc' = "top"
    /\ UNCHANGED <<kind, position, isA, level, cancelled, startVars,
                   chanVars, lineVars, motorDir, readVars, histVars, zeroed,
                   held, cycVars, obsVars>>

\* The goroutine begins: onStart(), then the locals are initialised.
\* getRPMSleepDebug() yields the debug flag, which the loop reads once.
LoopBegin ==
    /\ lpc = "spawned"
    /\ onStartCalls' = onStartCalls + 1
    /\ aLevel' = TRUE /\ bLevel' = TRUE
    /\ lastWasA' = TRUE /\ lastLevel' = TRUE
    /\ rpmDebug' \in (IF kind = "single" THEN BOOLEAN ELSE {FALSE})
    /\ lpc' = "top"
    /\ UNCHANGED <<kind, position, isA, level, cancelled,
                   activeBackgroundWorkers, callbacks, goroutines, chanVars,
                   lineVars,
                   motorDir, readVars, histVars, zeroed, held, cycVars,
                   obsVars>>

(* ------------------------ the consumer loop --------------------------- *)

\* return from the goroutine; ManagedGo then calls activeBackgroundWorkers.Done
Exit ==
    /\ lpc' = "done"
    /\ activeBackgroundWorkers' = activeBackgroundWorkers - 1
    /\ UNCHANGED <<kind, position, aLevel, bLevel, lastWasA, lastLevel, isA,
                   level, rpmDebug, cancelled, callbacks, onStartCalls,
                   goroutines, chanVars, lineVars, motorDir, readVars,
                   histVars, zeroed, held, cycVars, obsVars>>

\* Mutant of LoopTop: the check at the top of the iteration is missing.
LoopTopNoCheck ==
    /\ lpc = "top"
    /\ lpc' = "wait"
    /\ UNCHANGED <<kind, position, aLevel, bLevel, lastWasA, lastLevel, isA,
                   level, rpmDebug, cancelled, startVars, chanVars, lineVars,
                   motorDir, readVars, histVars, zeroed, held, cycVars,
                   obsVars>>

\* select { case <-cancelCtx.Done(): return; default: }
LoopTop ==
    /\ lpc = "top"
    /\ IF cancelled
       THEN Exit
       ELSE /\ lpc' = "wait"
            /\ UNCHANGED <<kind, position, aLevel, bLevel, lastWasA,
                           lastLevel, isA, level, rpmDebug, cancelled,
                           startVars, chanVars, lineVars, motorDir, readVars,
                           histVars, zeroed, held, cycVars, obsVars>>

\* Mutant of WaitCancel: the blocking select has no cancellation case.
WaitCancelMissing ==
    /\ lpc = "wait"
    /\ FALSE
    /\ UNCHANGED vars

\* the blocking select, case <-cancelCtx.Done(): return
WaitCancel ==
    /\ lpc = "wait"
    /\ cancelled
    /\ Exit

\* Mutant of HallRecvA: the received level is not stored in aLevel.
HallRecvANoCache ==
    /\ kind = "hall"
    /\ lpc = "wait"
    /\ chanA.busy
    /\ level' = chanA.level
    /\ isA' = TRUE
    /\ curGenuine' = chanA.genuine
    /\ chanA' = Idle
    /\ lpc' = "decode"
    /\ late' = Later(1, 0)
    /\ older' = "none"
    /\ UNCHANGED <<kind, position, aLevel, bLevel, lastWasA, lastLevel,
                   rpmDebug, cancelled, startVars, chanB, encoderChannel,
                   lineVars, motorDir, readVars, prev, pulse, zeroed, held,
                   cycVars, traced, waitDone, recvDir>>

\* the blocking select, case level = <-chanA: isA = true; aLevel = level
HallRecvA ==
    /\ kind = "hall"
    /\ lpc = "wait"
    /\ chanA.busy
    /\ level' = chanA.level
    /\ isA' = TRUE
    /\ aLevel' = chanA.level
    /\ curGenuine' = chanA.genuine
    /\ chanA' = Idle
    /\ lpc' = "decode"
    /\ late' = Later(1, 0)
    /\ older' = "none"
    /\ UNCHANGED <<kind, position, bLevel, lastWasA, lastLevel, rpmDebug,
                   cancelled, startVars, chanB, encoderChannel, lineVars,
                   motorDir, readVars, prev, pulse, zeroed, held, cycVars,
                   traced, waitDone, recvDir>>

\* the blocking select, case level = <-chanB: isA = false; bLevel = level
HallRecvB ==
    /\ kind = "hall"
    /\ lpc = "wait"
    /\ chanB.busy
    /\ level' = chanB.level
    /\ isA' = FALSE
    /\ bLevel' = chanB.level
    /\ curGenuine' = chanB.genuine
    /\ chanB' = Idle
    /\ lpc' = "decode"
    /\ late' = Later(1, 0)
    /\ older' = "none"
    /\ UNCHANGED <<kind, position, aLevel, lastWasA, lastLevel, rpmDebug,
                   cancelled, startVars, chanA, encoderChannel, lineVars,
                   motorDir, readVars, prev, pulse, zeroed, held, cycVars,
                   traced, waitDone, recvDir>>

\* Mutant of Duplicate: the level alone is compared, whatever the channel.
DuplicateLevelOnly(a, lv, wasA, lastLv) == lv = lastLv

\* Mutant of Duplicate: the channel test is inverted.
DuplicateOtherChannel(a, lv, wasA, lastLv) == a # wasA /\ lv = lastLv

\* if isA == lastWasA && level == lastLevel { continue }
Duplicate(a, lv, wasA, lastLv) == a = wasA /\ lv = lastLv

\* Mutant of HallStep: the branches of state 4 are swapped.
HallStepState4Swapped(a, b, wasA) ==
    IF ~a /\ ~b THEN (IF wasA THEN 1 ELSE -1)
    ELSE IF ~a /\ b THEN (IF wasA THEN -1 ELSE 1)
    ELSE IF a /\ b THEN (IF wasA THEN 1 ELSE -1)
    ELSE IF a /\ ~b THEN (IF wasA THEN 1 ELSE -1)
    ELSE 0

\* The if / else-if chain on (aLevel, bLevel) and lastWasA: 1 for e.inc(),
\* -1 for e.dec(), 0 when no branch is taken.
HallStep(a, b, wasA) ==
    IF ~a /\ ~b THEN (IF wasA THEN 1 ELSE -1)
    ELSE IF ~a /\ b THEN (IF wasA THEN -1 ELSE 1)
    ELSE IF a /\ b THEN (IF wasA THEN 1 ELSE -1)
    ELSE IF a /\ ~b THEN (IF wasA THEN -1 ELSE 1)
    ELSE 0

\* The two four-edge cycles, as <<isA, level>> of each edge.
FwdCycle == << <<TRUE, TRUE>>, <<FALSE, TRUE>>, <<TRUE, FALSE>>, <<FALSE, FALSE>> >>

RevCycle == << <<FALSE, TRUE>>, <<TRUE, TRUE>>, <<FALSE, FALSE>>, <<TRUE, FALSE>> >>

CycleOf(dir) == IF dir = "fwd" THEN FwdCycle ELSE RevCycle

RECURSIVE SumSeq(_)
SumSeq(s) == IF s = <<>> THEN 0 ELSE Head(s) + SumSeq(Tail(s))

\* History of the cycles: the processed edge <<a, lv>> with step d either
\* continues the cycle in progress, starts a new one, or breaks it.  Only
\* genuine edges make a cycle.  A completed cycle (four steps) stays in cyc
\* until the next edge is processed and is then remembered in lastCycle.
Track(a, lv, g, d) ==
    LET full == Len(cyc) = 4
        cur  == IF full THEN <<>> ELSE cyc
        cont == /\ g
                /\ cur # <<>>
                /\ CycleOf(cycDir)[Len(cur) + 1] = <<a, lv>>
        dir  == IF cont THEN cycDir
                ELSE IF g /\ <<a, lv>> = FwdCycle[1] THEN "fwd"
                ELSE IF g /\ <<a, lv>> = RevCycle[1] THEN "rev"
                ELSE "none"
    IN  /\ cycDir' = dir
        /\ cyc' = IF cont THEN Append(cur, d)
                  ELSE IF dir # "none" THEN <<d>> ELSE <<>>
        /\ lastCycle' = IF full THEN [dir |-> cycDir, sum |-> SumSeq(cyc)]
                        ELSE lastCycle

\* The rest of the iteration after a receive: the debounce filter, then the
\* transition table.
HallDecode ==
    /\ kind = "hall"
    /\ lpc = "decode"
    /\ LET dup == Duplicate(isA, level, lastWasA, lastLevel)
           d   == IF dup THEN 0 ELSE HallStep(aLevel, bLevel, isA)
       IN  /\ lastWasA' = IF dup THEN lastWasA ELSE isA
           /\ lastLevel' = IF dup THEN lastLevel ELSE level
           /\ AddInt64(d)
           /\ prev' = [valid |-> TRUE, isA |-> isA, level |-> level,
                       genuine |-> curGenuine, accepted |-> ~dup, d |-> d,
                       state |-> <<aLevel, bLevel, lastWasA', lastLevel'>>]
           /\ Track(isA, level, curGenuine, d)
           /\ late' = Later(0, d)
    /\ lpc' = "top"
    /\ UNCHANGED <<kind, aLevel, bLevel, isA, level, rpmDebug, cancelled,
                   startVars, chanVars, lineVars, motorDir, readVars,
                   curGenuine, pulse, older, traced, waitDone, recvDir>>

\* SingleEncoder: the blocking select, case <-encoderChannel
SingleRecv ==
    /\ kind = "single"
    /\ lpc = "wait"
    /\ encoderChannel.busy
    /\ encoderChannel' = Idle
    /\ lpc' = "count"
    /\ late' = Later(1, 0)
    /\ recvDir' = motorDir
    /\ UNCHANGED <<kind, position, aLevel, bLevel, lastWasA, lastLevel, isA,
                   level, rpmDebug, cancelled, startVars, chanA, chanB,
                   lineVars, motorDir, readVars, histVars, zeroed, held,
                   cycVars, traced, older, waitDone>>

\* Mutant of SingleStep: a pulse with the motor off is counted forward.
SingleStepCountsOff(dir) ==
    IF dir = "BACKWARD" THEN -1 ELSE 1

\* The if / else-if chain on dir: 1 / -1 for atomic.AddInt64, else 0.
SingleStep(dir) ==
    IF dir = "FORWARD" THEN 1
    ELSE IF dir = "BACKWARD" THEN -1
    ELSE 0

\* } else if rpmDebug { e.M.logger.Warn(...) }
SingleWarns(dir, debug) ==
    dir # "FORWARD" /\ dir # "BACKWARD" /\ debug

\* e.M.rawDirection(): the motor's direction at the time of the call
rawDirection == motorDir

\* Mutant of SingleCount: the direction is the one noted when the pulse
\* arrived, not one read now.
SingleCountCached ==
    /\ kind = "single"
    /\ lpc = "count"
    /\ LET dir == recvDir
       IN  /\ AddInt64(SingleStep(dir))
           /\ pulse' = [valid |-> TRUE, dir |-> dir, d |-> SingleStep(dir),
                        warned |-> SingleWarns(dir, rpmDebug),
                        at |-> recvDir, now |-> motorDir]
           /\ late' = Later(0, SingleStep(dir))
    /\ lpc' = "top"
    /\ UNCHANGED <<kind, aLevel, bLevel, lastWasA, lastLevel, isA, level,
                   rpmDebug, cancelled, startVars, chanVars, lineVars,
                   motorDir, readVars, curGenuine, prev, cycVars, older,
                   traced, waitDone, recvDir>>

\* dir := e.M.rawDirection(), then the chain
SingleCount ==
    /\ kind = "single"
    /\ lpc = "count"
    /\ LET dir == rawDirection
       IN  /\ AddInt64(SingleStep(dir))
           /\ pulse' = [valid |-> TRUE, dir |-> dir, d |-> SingleStep(dir),
                        warned |-> SingleWarns(dir, rpmDebug),
                        at |-> recvDir, now |-> motorDir]
           /\ late' = Later(0, SingleStep(dir))
    /\ lpc' = "top"
    /\ UNCHANGED <<kind, aLevel, bLevel, lastWasA, lastLevel, isA, level,
                   rpmDebug, cancelled, startVars, chanVars, lineVars,
                   motorDir, readVars, curGenuine, prev, cycVars, older,
                   traced, waitDone, recvDir>>

(* ------------------------- the interrupt layer ------------------------ *)

InRange == position > 0 - MaxPos /\ position < MaxPos

\* DigitalInterrupt.Tick(high) on line A: the line takes the level and the
\* level is sent on every registered channel; the send blocks until the
\* loop receives.  A tick with the level the line already has is a repeat.
\* When the other channel's send is already waiting, older remembers it.
TickA(high) ==
    /\ kind = "hall"
    /\ ~chanA.busy
    /\ InRange
    /\ lineA' = high
    /\ chanA' = IF callbacks["a"] > 0 THEN Sending(high, high # lineA)
                ELSE chanA
    /\ older' = IF traced /\ callbacks["a"] > 0 /\ chanB.busy
                THEN "b" ELSE older
    /\ UNCHANGED <<kind, position, loopVars, cancelled, startVars, chanB,
                   encoderChannel, lineB, motorDir, readVars, histVars,
                   zeroed, held, cycVars, late, traced, waitDone, recvDir>>

\* DigitalInterrupt.Tick(high) on line B
TickB(high) ==
    /\ kind = "hall"
    /\ ~chanB.busy
    /\ InRange
    /\ lineB' = high
    /\ chanB' = IF callbacks["b"] > 0 THEN Sending(high, high # lineB)
                ELSE chanB
    /\ older' = IF traced /\ callbacks["b"] > 0 /\ chanA.busy
                THEN "a" ELSE older
    /\ UNCHANGED <<kind, position, loopVars, cancelled, startVars, chanA,
                   encoderChannel, lineA, motorDir, readVars, histVars,
                   zeroed, held, cycVars, late, traced, waitDone, recvDir>>

\* DigitalInterrupt.Tick on SingleEncoder's interrupt: a pulse
TickI ==
    /\ kind = "single"
    /\ ~encoderChannel.busy
    /\ InRange
    /\ callbacks["i"] > 0
    /\ encoderChannel' = Sending(TRUE, TRUE)
    /\ UNCHANGED <<kind, position, loopVars, cancelled, startVars, chanA,
                   chanB, lineVars, motorDir, readVars, histVars, zeroed,
                   held, cycVars, obsVars>>

\* The motor changes the direction it reports.
SetDirection(dir) ==
    /\ kind = "single"
    /\ motorDir # dir
    /\ motorDir' = dir
    /\ UNCHANGED <<kind, position, loopVars, cancelled, startVars, chanVars,
                   lineVars, readVars, histVars, zeroed, held, cycVars,
                   obsVars>>

\* A caller that waits on the wait group after Start: Wait returns when the
\* count is zero.
Wait ==
    /\ lpc # "none"
    /\ ~waitDone
    /\ activeBackgroundWorkers = 0
    /\ waitDone' = TRUE
    /\ UNCHANGED <<kind, position, loopVars, cancelled, startVars, chanVars,
                   lineVars, motorDir, readVars, histVars, zeroed, held,
                   cycVars, traced, late, older, recvDir>>

\* The owner of cancelCtx cancels it.
Cancel ==
    /\ ~cancelled
    /\ cancelled' = TRUE
    /\ UNCHANGED <<kind, position, loopVars, startVars, chanVars, lineVars,
                   motorDir, readVars, histVars, zeroed, held, cycVars,
                   obsVars>>

(* --------------------------- Zero, Position --------------------------- *)

\* The error Zero returns: return nil
ZeroErr == "nil"

\* Mutant of PositionErr: an error once the loop has exited.
PositionErrAfterExit == IF lpc = "done" THEN "stopped" ELSE "nil"

\* The error Position returns: return atomic.LoadInt64(&e.position), nil
PositionErr == "nil"

\* Mutant of Zero: the decode state is set back to its initial values.
ZeroResetsDecode(offset) ==
    /\ StoreInt64(offset)
    /\ err' = ZeroErr
    /\ aLevel' = TRUE /\ bLevel' = TRUE
    /\ lastWasA' = TRUE /\ lastLevel' = TRUE
    /\ UNCHANGED <<kind, lpc, isA, level, rpmDebug, cancelled, startVars,
                   chanVars, lineVars, motorDir, rpc, result, histVars,
                   cycVars, obsVars>>

\* HallEncoder.Zero / SingleEncoder.Zero
Zero(offset) ==
    /\ StoreInt64(offset)
    /\ err' = ZeroErr
    /\ UNCHANGED <<kind, loopVars, cancelled, startVars, chanVars, lineVars,
                   motorDir, rpc, result, histVars, cycVars, obsVars>>

\* e.inc(), called at any time
inc ==
    /\ position < MaxPos
    /\ AddInt64(1)
    /\ UNCHANGED <<kind, loopVars, cancelled, startVars, chanVars, lineVars,
                   motorDir, readVars, histVars, cycVars, obsVars>>

\* e.dec(), called at any time
dec ==
    /\ position > 0 - MaxPos
    /\ AddInt64(-1)
    /\ UNCHANGED <<kind, loopVars, cancelled, startVars, chanVars, lineVars,
                   motorDir, readVars, histVars, cycVars, obsVars>>

\* HallEncoder.Position / SingleEncoder.Position as one step: the call and
\* its atomic load
Position ==
    /\ rpc = "idle"
    /\ rpc' = "loaded"
    /\ result' = LoadInt64
    /\ err' = PositionErr
    /\ zeroed' = IF zeroed.set THEN [zeroed EXCEPT !.read = TRUE] ELSE zeroed
    /\ UNCHANGED <<kind, position, loopVars, cancelled, startVars, chanVars,
                   lineVars, motorDir, histVars, held, cycVars, obsVars>>

\* HallEncoder.RawPosition: the atomic load, no error value
RawPosition ==
    /\ kind = "hall"
    /\ rpc = "idle"
    /\ rpc' = "loaded"
    /\ result' = LoadInt64
    /\ zeroed' = IF zeroed.set THEN [zeroed EXCEPT !.read = TRUE] ELSE zeroed
    /\ UNCHANGED <<kind, position, loopVars, cancelled, startVars, chanVars,
                   lineVars, motorDir, err, histVars, held, cycVars, obsVars>>

\* A caller enters Position; the load has not happened yet.
PositionCall ==
    /\ rpc = "idle"
    /\ rpc' = "called"
    /\ held' = {position}
    /\ UNCHANGED <<kind, position, loopVars, cancelled, startVars, chanVars,
                   lineVars, motorDir, result, err, histVars, zeroed, cycVars,
                   obsVars>>

\* HallEncoder.Position / SingleEncoder.Position: the atomic load
PositionLoad ==
    /\ rpc = "called"
    /\ rpc' = "loaded"
    /\ result' = LoadInt64
    /\ err' = PositionErr
    /\ zeroed' = IF zeroed.set THEN [zeroed EXCEPT !.read = TRUE] ELSE zeroed
    /\ UNCHANGED <<kind, position, loopVars, cancelled, startVars, chanVars,
                   lineVars, motorDir, histVars, held, cycVars, obsVars>>

\* Position (or RawPosition) returns to its caller.
PositionReturn ==
    /\ rpc = "loaded"
    /\ rpc' = "idle"
    /\ result' = 0
    /\ held' = {}
    /\ zeroed' = [zeroed EXCEPT !.read = FALSE]
    /\ UNCHANGED <<kind, position, loopVars, cancelled, startVars, chanVars,
                   lineVars, motorDir, err, histVars, cycVars, obsVars>>

(* --------------------------- specification ---------------------------- *)

Loop ==
    \/ LoopBegin
    \/ LoopTop
    \/ WaitCancel
    \/ HallRecvA
    \/ HallRecvB
    \/ HallDecode
    \/ SingleRecv
    \/ SingleCount

Next ==
    \/ Start
    \/ Loop
    \/ \E high \in BOOLEAN : TickA(high)
    \/ \E high \in BOOLEAN : TickB(high)
    \/ TickI
    \/ \E dir \in Directions : SetDirection(dir)
    \/ Cancel
    \/ \E offset \in Offsets : Zero(offset)
    \/ Position
    \/ RawPosition
    \/ PositionReturn

Spec == Init /\ [][Next]_vars

\* The counter alone, under every interleaving of its operations: inc and
\* dec at any time (as the loops call them), Zero, and a Position call seen
\* from its caller, with the instants of call, load and return.
CounterNext ==
    \/ inc
    \/ dec
    \/ \E offset \in Offsets : Zero(offset)
    \/ PositionCall
    \/ PositionLoad
    \/ PositionReturn

CounterSpec == Init /\ [][CounterNext]_vars

\* The loop and everything it interacts with: Start, the interrupt layer,
\* the motor, cancellation and Zero (which moves the position the interrupt
\* layer's bound looks at).  Position reads change nothing the loop reads.
LiveNext ==
    \/ Start
    \/ Loop
    \/ \E high \in BOOLEAN : TickA(high)
    \/ \E high \in BOOLEAN : TickB(high)
    \/ TickI
    \/ \E dir \in Directions : SetDirection(dir)
    \/ Cancel
    \/ \E offset \in Offsets : Zero(offset)

\* The goroutine is scheduled: a loop step that stays possible is taken.
FairSpec == Init /\ [][LiveNext]_vars /\ WF_vars(Loop)

\* The same steps and a waiter on the wait group, with no assumption on
\* scheduling and with the histories late and older recorded.
LoopNext ==
    \/ LiveNext
    \/ Wait

LoopSpec == TracedInit /\ [][LoopNext]_vars

(* ------------------------------ claims -------------------------------- *)

SameSign(x, y) == (x > 0 /\ y > 0) \/ (x < 0 /\ y < 0)

OppositeSign(x, y) == (x > 0 /\ y < 0) \/ (x < 0 /\ y > 0)

\* C1: every four-edge cycle A->true, B->true, A->false, B->false the
\* HallEncoder loop processes from lines at (false, false), the first one
\* after Start included, changes the position by 4 or by -4; so does the
\* reverse cycle; a cycle has the sign of the cycle before it when that one
\* ran in the same direction, and the opposite sign when it ran in the other.
C1_CycleChangesByFour ==
    Len(cyc) = 4 =>
        /\ SumSeq(cyc) \in {4, -4}
        /\ lastCycle.dir = cycDir => SameSign(SumSeq(cyc), lastCycle.sum)
        /\ lastCycle.dir \notin {cycDir, "none"} =>
               OppositeSign(SumSeq(cyc), lastCycle.sum)

\* The HallEncoder loop finishes an iteration: the step from the receive
\* to the next cancellation check.
DecodeStep == kind = "hall" /\ lpc = "decode" /\ lpc' = "top"

\* The transition table of the specification, on the levels after the edge
\* and the channel that produced it.
Table(a, b, fromA) ==
    CASE ~a /\ ~b -> (IF fromA THEN 1 ELSE -1)
      [] ~a /\ b  -> (IF fromA THEN -1 ELSE 1)
      [] a /\ b   -> (IF fromA THEN 1 ELSE -1)
      [] a /\ ~b  -> (IF fromA THEN -1 ELSE 1)

\* C2: every edge the HallEncoder loop accepts changes the position by
\* exactly the step the transition table gives for the levels after the edge
\* and the channel that produced it, +1 or -1, never 0 and never more.
C2_AcceptedEdgeFollowsTable ==
    [][(DecodeStep /\ prev'.accepted) =>
           /\ position' - position = Table(aLevel, bLevel, isA)
           /\ position' - position \in {1, -1}]_vars

\* C2 happens: an edge on A was accepted in state 4 (true, false) and
\* decremented the position.
C2_Witness ==
    /\ prev.valid /\ prev.accepted /\ prev.isA
    /\ prev.state[1] /\ ~prev.state[2]
    /\ prev.d = -1
    /\ position = -1

\* C3: when the event being processed has the channel and the level of the
\* event processed just before it, the position does not change and aLevel,
\* bLevel, lastWasA and lastLevel are what they were after that event.
C3_RepeatChangesNothing ==
    [][(DecodeStep /\ prev.valid /\ prev.isA = isA /\ prev.level = level) =>
           /\ position' = position
           /\ <<aLevel', bLevel', lastWasA', lastLevel'>> = prev.state]_vars

\* C3 happens: a delivery of level false was discarded, so the delivery
\* before it was the same channel with level false.
C3_Witness ==
    /\ prev.valid /\ ~prev.accepted /\ ~prev.level
    /\ prev.d = 0
    /\ position # 0

\* C4: from a Zero(X) until the loop next counts, the position is X and
\* every Position call made in between returns X, in every state of the
\* loop.
C4_ZeroThenPosition ==
    zeroed.set =>
        /\ position = zeroed.x
        /\ (zeroed.read /\ rpc = "loaded") => result = zeroed.x

\* C4 happens: Zero(1) was called with the loop running and a counted edge
\* behind it, and a Position call after it returned 1.
C4_Witness ==
    /\ zeroed.set /\ zeroed.x = 1 /\ zeroed.read
    /\ rpc = "loaded" /\ result = 1
    /\ lpc = "wait"
    /\ prev.valid /\ prev.accepted

\* C5: the value a Position call returns is a value the counter held at
\* some point between the call and the return.
C5_PositionReturnsHeldValue ==
    rpc = "loaded" => result \in held

\* C5 happens: the counter took at least three values during the call, and
\* the value returned is no longer the counter's value.
C5_Witness ==
    /\ rpc = "loaded"
    /\ Cardinality(held) >= 3
    /\ result # position
    /\ result \in held

\* C6: once Start has been called and the cancellation signal has fired,
\* the loop exits and signals the wait group.
C6_CancelLeadsToExit ==
    (cancelled /\ lpc # "none") ~> (lpc = "done" /\ activeBackgroundWorkers = 0)

\* C6 happens: the loop has exited after cancellation without ever having
\* received an event, with no sender waiting.
C6_Witness ==
    /\ cancelled /\ lpc = "done" /\ activeBackgroundWorkers = 0
    /\ onStartCalls = 1
    /\ ~prev.valid /\ ~pulse.valid
    /\ ~chanA.busy /\ ~chanB.busy /\ ~encoderChannel.busy

\* The SingleEncoder loop finishes an iteration.
CountStep == kind = "single" /\ lpc = "count" /\ lpc' # "count"

\* C7: a pulse changes the position by +1 when the direction read is
\* FORWARD, by -1 when it is BACKWARD and by 0 otherwise; the warning is
\* emitted only in the last case and only with the debug flag; whatever the
\* direction, the loop goes on to its next iteration.
C7_PulseFollowsDirection ==
    [][CountStep =>
           /\ position' - position =
                  (CASE motorDir = "FORWARD" -> 1
                     [] motorDir = "BACKWARD" -> -1
                     [] OTHER -> 0)
           /\ pulse'.warned =>
                  (motorDir \notin {"FORWARD", "BACKWARD"} /\ rpmDebug)
           /\ pulse'.warned => position' = position
           /\ lpc' = "top"]_vars

\* C7 happens: a pulse with the motor off was warned about and not counted,
\* after a pulse was counted, and the loop waits for the next one.
C7_Witness ==
    /\ pulse.valid /\ pulse.warned /\ pulse.d = 0
    /\ pulse.dir = "UNSPECIFIED"
    /\ position = 1
    /\ lpc = "wait"

\* C8: Position and Zero return a nil error in every state, and the loop
\* exits only on cancellation.
C8_NoError ==
    /\ err \in {"none", "nil"}
    /\ lpc = "done" => cancelled

\* C8 happens: Position has returned nil after the loop exited, and the loop
\* had discarded a duplicate edge before.
C8_Witness ==
    /\ err = "nil" /\ rpc = "loaded"
    /\ lpc = "done"
    /\ prev.valid /\ ~prev.accepted

\* C9: the call of HallEncoder.Start registers one channel with each of the
\* two interrupts, creates one goroutine, leaves the position as it is and
\* returns before the goroutine has run; onStart is called once, and before
\* the loop receives an edge.
C9_StartOnce ==
    [][kind = "hall" =>
           /\ (lpc = "none" /\ lpc' # "none") =>
                  /\ callbacks' = [callbacks EXCEPT !["a"] = 1, !["b"] = 1]
                  /\ goroutines' = 1
                  /\ position' = position
                  /\ onStartCalls' = 0
                  /\ lpc' = "spawned"
           /\ (lpc = "wait" /\ lpc' = "decode") => onStartCalls = 1
           /\ onStartCalls' <= 1
           /\ goroutines' <= 1]_vars

\* C9 happens: the loop has received its first edge, after one onStart.
C9_Witness ==
    /\ kind = "hall"
    /\ lpc = "decode" /\ ~prev.valid
    /\ onStartCalls = 1 /\ goroutines = 1
    /\ callbacks["a"] = 1 /\ callbacks["b"] = 1

\* C10: every processed edge that is a genuine level change of its line is
\* accepted and changes the position by exactly one, the first edge after
\* Start included.
C10_GenuineEdgeCounted ==
    (prev.valid /\ prev.genuine) => (prev.accepted /\ prev.d \in {1, -1})


\* C11: a delivery a producer has started on a registered channel always
\* completes: no sender is left waiting where no receive can follow, the
\* time after the loop has exited on cancellation included.
C11_DeliveryCompletes ==
    lpc = "done" =>
        ~chanA.busy /\ ~chanB.busy /\ ~encoderChannel.busy

\* C12: once the cancellation signal has fired, the loop of either encoder
\* receives no further edge or pulse and applies no further increment or
\* decrement.
C12_NothingAfterCancel ==
    late.recv = 0 /\ late.steps = 0

Pending == chanA.busy \/ chanB.busy \/ encoderChannel.busy

\* C12, amended: once the signal has fired the loop exits at its next
\* cancellation check.  The check at the top of an iteration exits without
\* receiving and without touching the counter or the channels; the blocking
\* wait exits when no delivery is pending.
C12_ExitsAtNextCheck ==
    [][/\ (cancelled /\ lpc = "top" /\ lpc' # "top") =>
              /\ lpc' = "done"
              /\ position' = position
              /\ chanVars' = chanVars
              /\ late' = late
       /\ (cancelled /\ lpc = "wait" /\ lpc' # "wait" /\ ~Pending) =>
              lpc' = "done"]_vars

\* C12 happens: the signal fired while the loop was decoding an edge it had
\* received; the edge was counted, and the loop exited at the check at the
\* top of the next iteration, leaving a pending delivery where it was.
C12_Witness ==
    /\ cancelled /\ lpc = "done"
    /\ late.recv = 0 /\ late.steps = 1
    /\ Pending

\* The HallEncoder loop receives from chanA / from chanB.
RecvAStep == kind = "hall" /\ lpc = "wait" /\ lpc' = "decode" /\ isA'

RecvBStep == kind = "hall" /\ lpc = "wait" /\ lpc' = "decode" /\ ~isA'

\* C13: the loop receives the edges in the order they were offered across
\* the two channels: with a delivery pending on each channel, it does not
\* receive the one offered second while the one offered first still waits.
C13_OfferOrderPreserved ==
    [][/\ RecvAStep => older # "b"
       /\ RecvBStep => older # "a"]_vars

\* A call of Zero: the only step that leaves the loop where it is and
\* changes the position.
ZeroStep == lpc' = lpc /\ position' # position

\* C14: no update of the counter is lost.  Every Zero(X) leaves the position
\* at X and every event the loop processes moves it by exactly the step the
\* loop applied, whatever ran in between; no other step changes it.  The
\* first edge accepted after a Zero(X), the one racing it included, ends in
\* X + 1 or X - 1.
C14_NoLostUpdate ==
    [][/\ DecodeStep => position' = position + prev'.d
       /\ CountStep => position' = position + pulse'.d
       /\ ZeroStep => (zeroed'.set /\ position' = zeroed'.x)
       /\ (~DecodeStep /\ ~CountStep /\ lpc' # lpc) => position' = position
       /\ (DecodeStep /\ zeroed.set /\ prev'.accepted) =>
              position' \in {zeroed.x + 1, zeroed.x - 1}
       /\ (CountStep /\ zeroed.set) =>
              position' \in {zeroed.x + 1, zeroed.x, zeroed.x - 1}]_vars

\* C14 happens: Zero(1) was called between the receive of an edge and its
\* count, with the counter at another value before; the edge is about to be
\* accepted.
C14_Witness ==
    /\ kind = "hall" /\ lpc = "decode"
    /\ ~Duplicate(isA, level, lastWasA, lastLevel)
    /\ zeroed.set /\ zeroed.x = 1
    /\ prev.valid /\ prev.accepted /\ prev.d = -1

\* The HallEncoder loop receives an edge.
RecvStep == kind = "hall" /\ lpc = "wait" /\ lpc' = "decode"

\* C15: aLevel, bLevel, lastWasA and lastLevel change only when the
\* HallEncoder loop receives an edge or decodes the edge it received; every
\* step that leaves the loop where it is (Position, Zero, RawPosition among
\* them) leaves the four as they are.
C15_DecodeStateFrame ==
    [][/\ <<aLevel', bLevel', lastWasA', lastLevel'>> #
              <<aLevel, bLevel, lastWasA, lastLevel>> =>
                  (RecvStep \/ DecodeStep)
       /\ lpc' = lpc =>
              <<aLevel', bLevel', lastWasA', lastLevel'>> =
                  <<aLevel, bLevel, lastWasA, lastLevel>>]_vars

\* C15 happens: Zero was called and the position read while the loop waits
\* for its next edge with a decode state other than the initial one.
C15_Witness ==
    /\ kind = "hall" /\ lpc = "wait"
    /\ zeroed.set /\ zeroed.read /\ rpc = "loaded" /\ err = "nil"
    /\ ~aLevel /\ bLevel /\ ~lastWasA /\ lastLevel
    /\ position = 1

\* C16: the step applied for a pulse is the step of the direction the motor
\* has when the loop counts the pulse, whatever the direction was when the
\* pulse was received: +1 for FORWARD, -1 for BACKWARD, 0 otherwise.
C16_DirectionReadAtCount ==
    pulse.valid =>
        /\ pulse.dir = pulse.now
        /\ pulse.d = (CASE pulse.now = "FORWARD" -> 1
                        [] pulse.now = "BACKWARD" -> -1
                        [] OTHER -> 0)

\* C16 happens: a pulse received while the motor ran forward was counted
\* after the direction had changed to backward, as -1.
C16_Witness ==
    /\ pulse.valid
    /\ pulse.at = "FORWARD" /\ pulse.now = "BACKWARD"
    /\ pulse.d = -1 /\ position = -1

\* C17: the wait group's count is one from the return of Start until the
\* loop exits and zero before and after, so it is incremented once,
\* decremented once and never negative; a Wait made after Start has returned
\* only if the loop has exited.
C17_WaitGroupCounts ==
    /\ activeBackgroundWorkers = (IF lpc \in {"none", "done"} THEN 0 ELSE 1)
    /\ activeBackgroundWorkers >= 0
    /\ waitDone => lpc = "done"

\* C17 happens: the loop of a HallEncoder exited after processing an edge,
\* the count is back at zero and the waiter has returned.
C17_Witness ==
    /\ waitDone /\ lpc = "done"
    /\ activeBackgroundWorkers = 0
    /\ goroutines = 1 /\ prev.valid

\* The event being decoded re-reports the level the loop had cached for its
\* channel, and the event processed before it was an accepted edge on the
\* other channel.
ReReport ==
    /\ prev.valid /\ prev.accepted
    /\ prev.isA # isA
    /\ level = (IF isA THEN prev.state[1] ELSE prev.state[2])

\* C18: a channel that re-reports its level after an accepted edge on the
\* other channel is not filtered: the event is accepted and moves the
\* position by one step opposite to the step of the edge in between.
C18_ReReportUndoesStep ==
    [][(DecodeStep /\ ReReport) =>
           /\ prev'.accepted
           /\ prev'.d = 0 - prev.d
           /\ prev'.d \in {1, -1}
           /\ position' - position = 0 - prev.d]_vars

\* C18 happens: line A ticks again with the level it has, right after an
\* edge on B was counted +1; the loop has received the repeat and is about
\* to decode it.
C18_Witness ==
    /\ kind = "hall" /\ lpc = "decode"
    /\ ReReport
    /\ isA /\ ~curGenuine
    /\ prev.d = 1 /\ position = 1

\* C19: after the cancellation signal has fired, the loop of either encoder
\* receives at most one more event and changes the counter by at most one
\* step.
C19_AtMostOneAfterCancel ==
    late.recv <= 1 /\ late.steps <= 1

\* C19 happens: the signal fired while the loop was waiting with a delivery
\* pending; the loop received the delivery, counted it and exited.
C19_Witness ==
    /\ cancelled /\ lpc = "done"
    /\ late.recv = 1 /\ late.steps = 1
    /\ position # 0

\* C20: whenever the HallEncoder loop is at the top of an iteration (or in
\* the wait that follows), lastLevel is the cached level of the channel
\* lastWasA names, and lastWasA and lastLevel are the channel and the level
\* of the event received last, whether it was accepted or discarded.
C20_LastMatchesCache ==
    (kind = "hall" /\ lpc \in {"top", "wait"}) =>
        /\ lastLevel = (IF lastWasA THEN aLevel ELSE bLevel)
        /\ prev.valid => (lastWasA = prev.isA /\ lastLevel = prev.level)

\* C20 happens: the loop is back at the top after discarding an event on B
\* with level false, which followed an accepted edge.
C20_Witness ==
    /\ kind = "hall" /\ lpc = "top"
    /\ prev.valid /\ ~prev.accepted
    /\ ~lastWasA /\ ~lastLevel /\ ~bLevel
    /\ position # 0

=============================================================================
